---- MODULE Spec2Model ----
(***************************************************************************)
(* invest-ease: the optional-details screen, the recommendation page, the  *)
(* browser's localStorage between them, and the life of the POST           *)
(* /api/recommend requests the recommendation page issues.                 *)
(*                                                                         *)
(* JavaScript values are tagged records.  A string is the sequence of its  *)
(* lexical tokens (a digit, a sign, a blank, a letter, or a whole word     *)
(* such as "gold" or "Infinity"), so that Number(string) is computed from  *)
(* the text.  An object is a TLA+ function from its keys to values; a key  *)
(* that is not in the domain reads as undefined, as in JavaScript.  An     *)
(* array is the sequence of its elements.                                  *)
(***************************************************************************)
EXTENDS Integers, Sequences, FiniteSets, TLC

VARIABLES
    storage,               \* localStorage: key -> item
    page,                  \* the route that is mounted
    formData,              \* OptionalDetailsPage state
    optReportPreference,   \* OptionalDetailsPage state `reportPreference`
    reportError,           \* OptionalDetailsPage state
    edits,                 \* number of handleInputChange calls since mount
    userDetails,           \* RecommendationPage state
    recommendationResults,
    recommendationLoading,
    recommendationError,
    reportPreference,
    preferenceLoaded,
    reportMode,
    singleReportData,
    inflight,              \* requests issued by the mounted page, not resolved
    issued,                \* number of fetchRecommendations calls since mount
    last,                  \* the last handler that ran, with what it saw
    call,                  \* a pure function applied to an input ...
    result                 \* ... and what it returned

optVars == <<formData, optReportPreference, reportError, edits>>
recVars == <<userDetails, recommendationResults, recommendationLoading,
             recommendationError, reportPreference, preferenceLoaded,
             reportMode, singleReportData, inflight, issued>>
pureVars == <<call, result>>
vars == <<storage, page, optVars, recVars, last, pureVars>>

(***************************************************************************)
(* Bounds of the model.                                                    *)
(***************************************************************************)
MaxRequests == 2
MaxEdits == 1
MaxStrLen == 3
MaxItems == 6

(***************************************************************************)
(* JavaScript values.                                                      *)
(***************************************************************************)
Undef == [t |-> "undefined"]
Null == [t |-> "null"]
NaN == [t |-> "NaN"]
Num(n) == [t |-> "number", n |-> n]
Infinity(negative) == [t |-> "Infinity", neg |-> negative]
Bool(b) == [t |-> "boolean", b |-> b]
Str(s) == [t |-> "string", s |-> s]
Obj(f) == [t |-> "object", f |-> f]
Arr(s) == [t |-> "array", s |-> s]
Word(w) == Str(<<w>>)
EMPTY == Str(<< >>)
EmptyObject == Obj([k \in {} |-> Undef])

typeof(v) ==
    CASE v.t \in {"number", "NaN", "Infinity"} -> "number"
      [] v.t \in {"null", "array"} -> "object"
      [] OTHER -> v.t

\* ToBoolean: the falsy values are undefined, null, '', 0, NaN and false.
Truthy(v) ==
    v \notin {Undef, Null, EMPTY, Num(0), NaN, Bool(FALSE)}

\* a ?? b
Coalesce(a, b) == IF a \in {Undef, Null} THEN b ELSE a

\* a || b
OrElse(a, b) == IF Truthy(a) THEN a ELSE b

\* o.key (and o?.key) for a value whose properties can be read
Get(o, key) ==
    IF o.t = "object" /\ key \in DOMAIN o.f THEN o.f[key] ELSE Undef

\* reading a property of null or undefined throws a TypeError
CanRead(o) == o \notin {Undef, Null}

\* { ...a, ...b }: spreading a primitive adds no key
Keys(o) == IF o.t = "object" THEN DOMAIN o.f ELSE {}
Spread(a, b) ==
    Obj([k \in Keys(a) \cup Keys(b) |->
            IF k \in Keys(b) THEN b.f[k] ELSE a.f[k]])

(***************************************************************************)
(* Number(value).  StringToNumber: blanks are trimmed, the empty string is *)
(* 0, an optionally signed run of decimal digits is its value, an          *)
(* optionally signed Infinity is infinite, anything else is NaN.           *)
(***************************************************************************)
Digits == {"0", "1", "2", "3", "4", "5", "6", "7", "8", "9"}

DigitValue(c) ==
    CASE c = "0" -> 0 [] c = "1" -> 1 [] c = "2" -> 2 [] c = "3" -> 3
      [] c = "4" -> 4 [] c = "5" -> 5 [] c = "6" -> 6 [] c = "7" -> 7
      [] c = "8" -> 8 [] c = "9" -> 9

RECURSIVE DecimalValue(_)
DecimalValue(s) ==
    IF s = << >> THEN 0
    ELSE 10 * DecimalValue(SubSeq(s, 1, Len(s) - 1)) + DigitValue(s[Len(s)])

RECURSIVE TrimStart(_)
TrimStart(s) ==
    IF s # << >> /\ Head(s) = " " THEN TrimStart(Tail(s)) ELSE s

RECURSIVE TrimEnd(_)
TrimEnd(s) ==
    IF s # << >> /\ s[Len(s)] = " "
    THEN TrimEnd(SubSeq(s, 1, Len(s) - 1)) ELSE s

StringToNumber(s) ==
    LET trimmed == TrimEnd(TrimStart(s))
        signed == trimmed # << >> /\ Head(trimmed) \in {"-", "+"}
        negative == trimmed # << >> /\ Head(trimmed) = "-"
        body == IF signed THEN Tail(trimmed) ELSE trimmed
    IN  IF trimmed = << >> THEN Num(0)
        ELSE IF body = <<"Infinity">> THEN Infinity(negative)
        ELSE IF body # << >> /\ \A i \in 1..Len(body) : body[i] \in Digits
             THEN Num(IF negative THEN 0 - DecimalValue(body)
                      ELSE DecimalValue(body))
        ELSE NaN

\* the decimal digits of a natural number
DigitChar(d) == CHOOSE c \in Digits : DigitValue(c) = d

RECURSIVE NatToString(_)
NatToString(n) ==
    IF n < 10 THEN <<DigitChar(n)>>
    ELSE NatToString(n \div 10) \o <<DigitChar(n % 10)>>

\* String(v), as in a template literal `${v}`; an array is its elements
\* joined by commas, null and undefined elements being empty
RECURSIVE StringOf(_)
StringOf(v) ==
    CASE v.t = "undefined" -> <<"undefined">>
      [] v.t = "null" -> <<"null">>
      [] v.t = "NaN" -> <<"NaN">>
      [] v.t = "number" ->
            IF v.n < 0 THEN <<"-">> \o NatToString(0 - v.n)
            ELSE NatToString(v.n)
      [] v.t = "Infinity" ->
            IF v.neg THEN <<"-", "Infinity">> ELSE <<"Infinity">>
      [] v.t = "boolean" -> IF v.b THEN <<"true">> ELSE <<"false">>
      [] v.t = "string" -> v.s
      [] v.t = "object" -> <<"[object Object]">>
      [] v.t = "array" ->
            LET element(i) ==
                    IF v.s[i] \in {Undef, Null} THEN << >>
                    ELSE StringOf(v.s[i])
                join[i \in 0..Len(v.s)] ==
                    IF i = 0 THEN << >>
                    ELSE IF i = 1 THEN element(1)
                    ELSE join[i - 1] \o <<",">> \o element(i)
            IN  join[Len(v.s)]

\* Number(v); a plain object converts to NaN, an array as its String does
ToNumber(v) ==
    CASE v.t = "undefined" -> NaN
      [] v.t = "null" -> Num(0)
      [] v.t = "boolean" -> Num(IF v.b THEN 1 ELSE 0)
      [] v.t = "string" -> StringToNumber(v.s)
      [] v.t = "object" -> NaN
      [] v.t = "array" -> StringToNumber(StringOf(v))
      [] OTHER -> v

(***************************************************************************)
(* JSON.  JSON.stringify drops the keys of an object whose value is        *)
(* undefined, writes NaN and the infinities as null, and writes an         *)
(* undefined element of an array as null.  A stored text is either the     *)
(* serialization of a value, the empty string, or text that JSON.parse     *)
(* rejects.                                                                *)
(***************************************************************************)
RECURSIVE Jsonify(_)
Jsonify(v) ==
    CASE v.t \in {"NaN", "Infinity"} -> Null
      [] v.t = "object" ->
            LET kept == {k \in DOMAIN v.f : v.f[k] # Undef}
            IN  Obj([k \in kept |-> Jsonify(v.f[k])])
      [] v.t = "array" ->
            Arr([i \in 1..Len(v.s) |->
                    IF v.s[i] = Undef THEN Null ELSE Jsonify(v.s[i])])
      [] OTHER -> v

NoItem == [k |-> "none"]
EmptyText == [k |-> "empty"]
Garbage == [k |-> "garbage"]
JSONstringify(v) == [k |-> "json", v |-> Jsonify(v)]

\* localStorage.getItem(key) is null when there is no item
ItemTruthy(item) == item.k \in {"json", "garbage"}
ParseThrows(item) == item.k # "json"
JSONparse(item) == item.v

(***************************************************************************)
(* Literals of the two pages.                                              *)
(***************************************************************************)
FULL == Word("full")
SINGLE == Word("single")
Medium == Word("Medium")

DefaultPreference == Obj([reportType |-> FULL, investmentType |-> EMPTY])

SINGLE_REPORT_OPTIONS ==
    <<Word("mutualfunds"), Word("stocks"), Word("bonds"), Word("gold"),
      Word("sip")>>

CategoryError ==
    Word("Please choose a category for the single-investment report.")

BlankForm ==
    Obj([monthlyIncome |-> EMPTY, savings |-> EMPTY, timeHorizon |-> EMPTY,
         investmentExperience |-> EMPTY, financialGoals |-> EMPTY,
         monthlyExpenses |-> EMPTY])

(***************************************************************************)
(* Loading the stored report preference (both pages).                      *)
(***************************************************************************)
\* a faulty variant: the stored fields are copied without being normalised
ParsedPreferenceVerbatim(parsed) ==
    Obj([reportType |-> Get(parsed, "reportType"),
         investmentType |-> Get(parsed, "investmentType")])

\* the object both pages build from the parsed text
ParsedPreference(parsed) ==
    Obj([reportType |->
            IF Get(parsed, "reportType") = SINGLE THEN SINGLE ELSE FULL,
         investmentType |-> OrElse(Get(parsed, "investmentType"), EMPTY)])

\* JSON.parse throws, or parsed.reportType is read off null
LoadThrows(stored) == ParseThrows(stored) \/ ~CanRead(JSONparse(stored))

\* OptionalDetailsPage: a parse error keeps the state it had
OptionalLoadPreference(stored, current) ==
    IF ~ItemTruthy(stored) THEN current
    ELSE IF LoadThrows(stored) THEN current
    ELSE ParsedPreference(JSONparse(stored))

\* RecommendationPage: a parse error sets the default
RecommendationLoadPreference(stored, current) ==
    IF ~ItemTruthy(stored) THEN current
    ELSE IF LoadThrows(stored) THEN DefaultPreference
    ELSE ParsedPreference(JSONparse(stored))

(***************************************************************************)
(* The request payload.                                                    *)
(***************************************************************************)
parseOptionalNumber(value) ==
    IF value \in {Undef, Null, EMPTY} THEN Undef
    ELSE LET parsed == ToNumber(value)
         IN  IF parsed = NaN THEN Undef ELSE parsed

Payload(details, preference) ==
    Obj([age |->
            ToNumber(Coalesce(Coalesce(Get(details, "age"),
                                       Get(details, "userAge")), Num(30))),
         investment_amount |->
            ToNumber(Coalesce(Coalesce(Get(details, "investmentAmount"),
                                       Get(details, "investment_amount")),
                              Num(0))),
         risk_preference |->
            Coalesce(Coalesce(Get(details, "riskPreference"),
                              Get(details, "risk_preference")), Medium),
         monthly_income |->
            parseOptionalNumber(Coalesce(Get(details, "monthlyIncome"),
                                         Get(details, "monthly_income"))),
         savings |->
            parseOptionalNumber(Coalesce(Coalesce(Get(details, "savings"),
                                                  Get(details, "totalSavings")),
                                         Get(details, "netWorth"))),
         time_horizon |->
            Coalesce(Get(details, "timeHorizon"), Get(details, "time_horizon")),
         experience_level |->
            Coalesce(Get(details, "experienceLevel"),
                     Get(details, "experience_level")),
         financial_goals |->
            Coalesce(Get(details, "financialGoals"),
                     Get(details, "financial_goals")),
         monthly_expenses |->
            parseOptionalNumber(Coalesce(Get(details, "monthlyExpenses"),
                                         Get(details, "monthly_expenses"))),
         report_type |-> Coalesce(Get(preference, "reportType"), FULL),
         investment_type |->
            OrElse(Get(preference, "investmentType"), Undef)])

\* the body of the POST: JSON.stringify(payload), as the server parses it
RequestBody(details, preference) == Jsonify(Payload(details, preference))

\* whether a request body carries a key
HasKey(body, key) == key \in Keys(body)

(***************************************************************************)
(* The states in which a page is not mounted, or is mounted and has run no *)
(* effect yet (the useState initial values).                               *)
(***************************************************************************)
OptionalUnmounted ==
    /\ formData = BlankForm
    /\ optReportPreference = DefaultPreference
    /\ reportError = EMPTY
    /\ edits = 0

RecommendationUnmounted ==
    /\ userDetails = Null
    /\ recommendationResults = Null
    /\ recommendationLoading = FALSE
    /\ recommendationError = Null
    /\ reportPreference = DefaultPreference
    /\ preferenceLoaded = FALSE
    /\ reportMode = FULL
    /\ singleReportData = Null
    /\ inflight = {}
    /\ issued = 0

NoCall == [fn |-> "none"]
Pending == [t |-> "pending"]
NoHandler == [op |-> "none"]

(***************************************************************************)
(* Inputs of the pure functions.                                           *)
(***************************************************************************)
Tokens == {"0", "4", " ", "a", "-", "Infinity"}

Strings(n) == UNION {[1..k -> Tokens] : k \in 0..n}

NumberInputs ==
    {Undef, Null, Num(0), Num(12), NaN} \cup {Str(s) : s \in Strings(MaxStrLen)}

AgeInputs ==
    {Undef, Null, Num(30), Num(25), EMPTY, Str(<<"4", "0">>), Word("a"),
     Str(<<" ">>)}

ProfileInputs ==
    {Jsonify(Obj([age |-> a, userAge |-> u, investmentAmount |-> i,
                  investment_amount |-> j, riskPreference |-> r,
                  risk_preference |-> q])) :
        a \in AgeInputs, u \in {Undef, Num(41)},
        i \in {Undef, Num(50000), Str(<<"4", "0">>)}, j \in {Undef, Num(0)},
        r \in {Undef, Word("Low"), Word("High")}, q \in {Undef, Word("Low")}}

(***************************************************************************)
(* SpecNumber: parseOptionalNumber applied to every input.                 *)
(***************************************************************************)
InitNumber ==
    /\ storage = [mandatoryDetails |-> NoItem, optionalDetails |-> NoItem,
                  reportPreference |-> NoItem]
    /\ page = "elsewhere"
    /\ OptionalUnmounted
    /\ RecommendationUnmounted
    /\ last = NoHandler
    /\ call \in {[fn |-> "parseOptionalNumber", value |-> v] :
                    v \in NumberInputs}
    /\ result = Pending

ApplyParseOptionalNumber ==
    /\ call.fn = "parseOptionalNumber"
    /\ result = Pending
    /\ result' = parseOptionalNumber(call.value)
    /\ UNCHANGED <<storage, page, optVars, recVars, last, call>>

NextNumber == ApplyParseOptionalNumber

SpecNumber == InitNumber /\ [][NextNumber]_vars

(***************************************************************************)
(* SpecPayload: the request built from every profile.                      *)
(***************************************************************************)
InitPayload ==
    /\ storage = [mandatoryDetails |-> NoItem, optionalDetails |-> NoItem,
                  reportPreference |-> NoItem]
    /\ page = "elsewhere"
    /\ OptionalUnmounted
    /\ RecommendationUnmounted
    /\ last = NoHandler
    /\ call \in {[fn |-> "Payload", details |-> d,
                  preference |-> DefaultPreference] : d \in ProfileInputs}
    /\ result = Pending

ApplyPayload ==
    /\ call.fn = "Payload"
    /\ result = Pending
    /\ result' = RequestBody(call.details, call.preference)
    /\ UNCHANGED <<storage, page, optVars, recVars, last, call>>

NextPayload == ApplyPayload

SpecPayload == InitPayload /\ [][NextPayload]_vars

(***************************************************************************)
(* What localStorage may hold when the application starts, what the user   *)
(* may type, and what the server may answer.                               *)
(***************************************************************************)
BaselineProfile ==
    Obj([age |-> Num(30), investmentAmount |-> Num(50000),
         riskPreference |-> Medium])

\* a profile whose risk preference is none of Low, Medium, High
OffTableProfile ==
    Obj([age |-> Num(30), investmentAmount |-> Num(50000),
         riskPreference |-> Word("Aggressive")])

MandatoryItems ==
    {NoItem, Garbage, JSONstringify(BaselineProfile),
     JSONstringify(Obj([riskPreference |-> Word("High")])),
     JSONstringify(OffTableProfile)}

PreferenceItems ==
    {NoItem, EmptyText, Garbage, JSONstringify(Null), JSONstringify(Num(5)),
     JSONstringify(Obj([reportType |-> SINGLE])),
     JSONstringify(Obj([reportType |-> SINGLE,
                        investmentType |-> Word("crypto")]))}

FormFields ==
    {"monthlyIncome", "savings", "timeHorizon", "investmentExperience",
     "financialGoals", "monthlyExpenses"}

\* the number inputs, and the first option of each select
InputValues(name) ==
    CASE name \in {"monthlyIncome", "savings", "monthlyExpenses"} ->
            {EMPTY, Str(<<"4", "0">>)}
      [] name = "timeHorizon" -> {EMPTY, Word("1-3 years")}
      [] name = "investmentExperience" -> {EMPTY, Word("Beginner")}
      [] name = "financialGoals" -> {EMPTY, Word("Retirement Planning")}

CategoryChoices == {EMPTY, SINGLE_REPORT_OPTIONS[4]}

SomeRecommendations == Obj([gold |-> Word("items")])
SomeSingleReport == Obj([category |-> Word("gold")])

\* the parsed body of a 2xx response
ServerData ==
    {Null} \cup
    {Jsonify(Obj([report_type |-> rt, recommendations |-> rc,
                  single_report |-> sr])) :
        rt \in {Undef, FULL, SINGLE, Word("detailed")},
        rc \in {Undef, SomeRecommendations},
        sr \in {Undef, SomeSingleReport}}

\* the message of the TypeError a failed fetch() rejects with
NetworkErrors == {Word("Failed to fetch"), EMPTY}

(***************************************************************************)
(* The application.                                                        *)
(***************************************************************************)
Init ==
    /\ storage \in [mandatoryDetails : MandatoryItems,
                    optionalDetails : {NoItem},
                    reportPreference : PreferenceItems]
    /\ page = "elsewhere"
    /\ OptionalUnmounted
    /\ RecommendationUnmounted
    /\ last = NoHandler
    /\ call = NoCall
    /\ result = Pending

UnmountOptional ==
    /\ formData' = BlankForm
    /\ optReportPreference' = DefaultPreference
    /\ reportError' = EMPTY
    /\ edits' = 0

UnmountRecommendation ==
    /\ userDetails' = Null
    /\ recommendationResults' = Null
    /\ recommendationLoading' = FALSE
    /\ recommendationError' = Null
    /\ reportPreference' = DefaultPreference
    /\ preferenceLoaded' = FALSE
    /\ reportMode' = FULL
    /\ singleReportData' = Null
    /\ inflight' = {}
    /\ issued' = 0

(***************************************************************************)
(* OptionalDetailsPage.                                                    *)
(***************************************************************************)
\* the route /optional is entered: initial state, then the load effect
OptionalMount ==
    /\ page' = "optional"
    /\ formData' = BlankForm
    /\ optReportPreference' =
          OptionalLoadPreference(storage.reportPreference, DefaultPreference)
    /\ reportError' = EMPTY
    /\ edits' = 0
    /\ UnmountRecommendation
    /\ last' = [op |-> "OptionalMount"]
    /\ UNCHANGED <<storage, pureVars>>

handleInputChange(name, value) ==
    /\ page = "optional"
    /\ edits < MaxEdits
    /\ formData' = Obj([formData.f EXCEPT ![name] = value])
    /\ edits' = edits + 1
    /\ last' = [op |-> "handleInputChange"]
    /\ UNCHANGED <<storage, page, optReportPreference, reportError, recVars,
                   pureVars>>

\* the category select is rendered only while reportType is 'single'
handleReportPreferenceChange(key, value) ==
    /\ page = "optional"
    /\ key = "investmentType" => Get(optReportPreference, "reportType") = SINGLE
    /\ optReportPreference' = Obj([optReportPreference.f EXCEPT ![key] = value])
    /\ reportError' = IF Truthy(reportError) THEN EMPTY ELSE reportError
    /\ last' = [op |-> "handleReportPreferenceChange"]
    /\ UNCHANGED <<storage, page, formData, edits, recVars, pureVars>>

\* a faulty variant: a category is demanded whatever the report type is
validateRequiresCategory(preference) ==
    Truthy(Get(preference, "investmentType"))

\* the value validateReportPreference returns
validateReportPreference(preference) ==
    ~(/\ Get(preference, "reportType") = SINGLE
      /\ ~Truthy(Get(preference, "investmentType")))

\* the text persistReportPreference stores
persistReportPreference(preference) ==
    JSONstringify(Obj([reportType |-> Get(preference, "reportType"),
                       investmentType |-> Get(preference, "investmentType")]))

\* validation failed: the handler sets the error and returns
Rejected(op) ==
    /\ ~validateReportPreference(optReportPreference)
    /\ reportError' = CategoryError
    /\ last' = [op |-> op, ok |-> FALSE, preference |-> optReportPreference,
                storage |-> storage]
    /\ UNCHANGED <<storage, page, formData, optReportPreference, edits,
                   recVars, pureVars>>

\* validation passed: the handler stores and navigates to /recommendation
Accepted(op, stored) ==
    /\ validateReportPreference(optReportPreference)
    /\ storage' = stored
    /\ page' = "recommendation"
    /\ UnmountOptional
    /\ last' = [op |-> op, ok |-> TRUE, preference |-> optReportPreference,
                storage |-> storage]
    /\ UNCHANGED <<recVars, pureVars>>

handleSubmit ==
    /\ page = "optional"
    /\ \/ Rejected("handleSubmit")
       \/ Accepted("handleSubmit",
                   [storage EXCEPT
                      !.optionalDetails = JSONstringify(formData),
                      !.reportPreference =
                          persistReportPreference(optReportPreference)])

\* a faulty variant: Skip stores and navigates without validating
handleSkipUnvalidated ==
    /\ page = "optional"
    /\ storage' = [storage EXCEPT
                      !.reportPreference =
                          persistReportPreference(optReportPreference)]
    /\ page' = "recommendation"
    /\ UnmountOptional
    /\ last' = [op |-> "handleSkip", ok |-> TRUE,
                preference |-> optReportPreference, storage |-> storage]
    /\ UNCHANGED <<recVars, pureVars>>

handleSkip ==
    /\ page = "optional"
    /\ \/ Rejected("handleSkip")
       \/ Accepted("handleSkip",
                   [storage EXCEPT
                      !.reportPreference =
                          persistReportPreference(optReportPreference)])

(***************************************************************************)
(* RecommendationPage.                                                     *)
(***************************************************************************)
\* the route /recommendation is entered by a link or by its URL
RecommendationOpen ==
    /\ page' = "recommendation"
    /\ UnmountOptional
    /\ UnmountRecommendation
    /\ last' = [op |-> "RecommendationOpen"]
    /\ UNCHANGED <<storage, pureVars>>

\* { ...JSON.parse(mandatory), ...(optional ? JSON.parse(optional) : {}) }
AssembledProfile(mandatory, optional) ==
    Spread(Spread(EmptyObject, JSONparse(mandatory)),
           IF ItemTruthy(optional) THEN JSONparse(optional) ELSE EmptyObject)

\* the two mount effects: the profile, then the report preference
RecommendationMount ==
    /\ page = "recommendation"
    /\ ~preferenceLoaded
    /\ LET mandatory == storage.mandatoryDetails
           optional == storage.optionalDetails
       IN  IF ~ItemTruthy(mandatory)
           THEN \* navigate('/details')
                /\ page' = "elsewhere"
                /\ last' = [op |-> "RecommendationMount",
                            outcome |-> "redirected"]
                /\ UNCHANGED recVars
           ELSE IF \/ ParseThrows(mandatory)
                   \/ ItemTruthy(optional) /\ ParseThrows(optional)
           THEN \* JSON.parse throws in the effect: React unmounts the tree
                /\ page' = "elsewhere"
                /\ last' = [op |-> "RecommendationMount",
                            outcome |-> "crashed"]
                /\ UNCHANGED recVars
           ELSE /\ userDetails' = AssembledProfile(mandatory, optional)
                /\ reportPreference' =
                      RecommendationLoadPreference(storage.reportPreference,
                                                   reportPreference)
                /\ preferenceLoaded' = TRUE
                /\ last' = [op |-> "RecommendationMount",
                            outcome |-> "loaded"]
                /\ UNCHANGED <<page, recommendationResults,
                               recommendationLoading, recommendationError,
                               reportMode, singleReportData, inflight, issued>>
    /\ UNCHANGED <<storage, optVars, pureVars>>

\* what the page holds of the last response
StateShown ==
    [results |-> recommendationResults, mode |-> reportMode,
     single |-> singleReportData]

\* a faulty variant: a call discards the results it is about to replace
fetchRecommendationsClearsResults ==
    /\ page = "recommendation"
    /\ userDetails # Null
    /\ preferenceLoaded
    /\ issued < MaxRequests
    /\ recommendationLoading' = TRUE
    /\ recommendationError' = Null
    /\ recommendationResults' = Null
    /\ inflight' = inflight \cup
          {[id |-> issued + 1,
            body |-> RequestBody(userDetails, reportPreference)]}
    /\ issued' = issued + 1
    /\ last' = [op |-> "fetchRecommendations", id |-> issued + 1,
                before |-> StateShown]
    /\ UNCHANGED <<storage, page, optVars, userDetails, reportPreference,
                   preferenceLoaded, reportMode,
                   singleReportData, pureVars>>

\* a faulty variant: the effect does not wait for the profile and the
\* preference
fetchRecommendationsUnguarded ==
    /\ page = "recommendation"
    /\ issued < MaxRequests
    /\ recommendationLoading' = TRUE
    /\ recommendationError' = Null
    /\ inflight' = inflight \cup
          {[id |-> issued + 1,
            body |-> RequestBody(userDetails, reportPreference)]}
    /\ issued' = issued + 1
    /\ last' = [op |-> "fetchRecommendations", id |-> issued + 1,
                before |-> StateShown]
    /\ UNCHANGED <<storage, page, optVars, userDetails, recommendationResults,
                   reportPreference, preferenceLoaded, reportMode,
                   singleReportData, pureVars>>

\* The effect of lines 130-134 calls fetchRecommendations(userDetails,
\* reportPreference) once both are loaded, and again whenever React runs
\* the effect again (a dependency changed identity, or the effects were
\* re-run).  The callback neither deduplicates nor cancels, so a call may
\* start while earlier ones are in flight.  This is the part of the
\* callback before its first await.
fetchRecommendations ==
    /\ page = "recommendation"
    /\ userDetails # Null
    /\ preferenceLoaded
    /\ issued < MaxRequests
    /\ recommendationLoading' = TRUE
    /\ recommendationError' = Null
    /\ inflight' = inflight \cup
          {[id |-> issued + 1,
            body |-> RequestBody(userDetails, reportPreference)]}
    /\ issued' = issued + 1
    /\ last' = [op |-> "fetchRecommendations", id |-> issued + 1,
                before |-> StateShown]
    /\ UNCHANGED <<storage, page, optVars, userDetails, recommendationResults,
                   reportPreference, preferenceLoaded, reportMode,
                   singleReportData, pureVars>>

\* a faulty variant: the mode shown is the locally stored preference
serverReportTypeLocal(data) == Get(reportPreference, "reportType")

\* data?.report_type === 'single' ? 'single' : 'full'
serverReportType(data) ==
    IF Get(data, "report_type") = SINGLE THEN SINGLE ELSE FULL

\* a faulty variant: the response of a call that is not the latest is dropped
ResponseOkLatestOnly(r, data) ==
    /\ r \in inflight
    /\ recommendationResults' =
          IF r.id = issued THEN Coalesce(Get(data, "recommendations"), data)
          ELSE recommendationResults
    /\ reportMode' = IF r.id = issued THEN serverReportType(data) ELSE reportMode
    /\ singleReportData' =
          IF r.id = issued THEN Coalesce(Get(data, "single_report"), Null)
          ELSE singleReportData
    /\ recommendationLoading' = FALSE
    /\ inflight' = inflight \ {r}
    /\ last' = [op |-> "success", id |-> r.id, data |-> data,
                preference |-> reportPreference, storage |-> storage]
    /\ UNCHANGED <<storage, page, optVars, userDetails, recommendationError,
                   reportPreference, preferenceLoaded, issued, pureVars>>

\* a faulty variant: the success path has no finally block
ResponseOkKeepsLoading(r, data) ==
    /\ r \in inflight
    /\ recommendationResults' = Coalesce(Get(data, "recommendations"), data)
    /\ reportMode' = serverReportType(data)
    /\ singleReportData' = Coalesce(Get(data, "single_report"), Null)
    /\ inflight' = inflight \ {r}
    /\ last' = [op |-> "success", id |-> r.id, data |-> data,
                preference |-> reportPreference, storage |-> storage]
    /\ UNCHANGED <<storage, page, optVars, userDetails, recommendationError,
                   recommendationLoading, reportPreference, preferenceLoaded,
                   issued, pureVars>>

\* the try block after response.json() resolved, then the finally block
ResponseOk(r, data) ==
    /\ r \in inflight
    /\ recommendationResults' = Coalesce(Get(data, "recommendations"), data)
    /\ reportMode' = serverReportType(data)
    /\ singleReportData' = Coalesce(Get(data, "single_report"), Null)
    /\ recommendationLoading' = FALSE
    /\ inflight' = inflight \ {r}
    /\ last' = [op |-> "success", id |-> r.id, data |-> data,
                preference |-> reportPreference, storage |-> storage]
    /\ UNCHANGED <<storage, page, optVars, userDetails, recommendationError,
                   reportPreference, preferenceLoaded, issued, pureVars>>

\* a faulty variant: the catch block leaves the report mode as it was
CatchKeepsMode(r, message) ==
    /\ r \in inflight
    /\ recommendationError' =
          OrElse(message, Word("Failed to load recommendations"))
    /\ recommendationResults' = Null
    /\ singleReportData' = Null
    /\ recommendationLoading' = FALSE
    /\ inflight' = inflight \ {r}
    /\ last' = [op |-> "failure", id |-> r.id, modeBefore |-> reportMode]
    /\ UNCHANGED <<storage, page, optVars, userDetails, reportPreference,
                   preferenceLoaded, issued, reportMode, pureVars>>

\* the catch block, then the finally block
Catch(r, message) ==
    /\ r \in inflight
    /\ recommendationError' =
          OrElse(message, Word("Failed to load recommendations"))
    /\ recommendationResults' = Null
    /\ reportMode' = FULL
    /\ singleReportData' = Null
    /\ recommendationLoading' = FALSE
    /\ inflight' = inflight \ {r}
    /\ last' = [op |-> "failure", id |-> r.id, modeBefore |-> reportMode]
    /\ UNCHANGED <<storage, page, optVars, userDetails, reportPreference,
                   preferenceLoaded, issued, pureVars>>

\* fetch() rejects
FetchRejected(r, message) == Catch(r, message)

\* !response.ok
ResponseNotOk(r) == Catch(r, Word("Unable to fetch recommendations"))

\* response.json() rejects with a SyntaxError
ResponseUnparseable(r) == Catch(r, Word("Unexpected token"))

(***************************************************************************)
(* What RecommendationPage renders.                                        *)
(***************************************************************************)
\* the table of getDummyRecommendation, each row by its expectedReturn
DummyRecommendations ==
    [Low |-> Obj([expectedReturn |-> Word("8-10%")]),
     Medium |-> Obj([expectedReturn |-> Word("10-12%")]),
     High |-> Obj([expectedReturn |-> Word("12-15%")])]

\* recommendations[userDetails.riskPreference]: undefined off the table
getDummyRecommendation(details) ==
    IF ~Truthy(details) THEN Null
    ELSE LET riskLevel == Get(details, "riskPreference")
         IN  IF /\ riskLevel.t = "string"
                /\ Len(riskLevel.s) = 1
                /\ riskLevel.s[1] \in DOMAIN DummyRecommendations
             THEN DummyRecommendations[riskLevel.s[1]]
             ELSE Undef

\* the report section of the page: 'Loading...' replaces the whole page,
\* and renderSingleRecommendationSection returns null without a report
ReportSection ==
    IF page # "recommendation" THEN "unmounted"
    ELSE IF ~Truthy(userDetails) \/ ~Truthy(getDummyRecommendation(userDetails))
    THEN "loading"
    ELSE IF reportMode = SINGLE
    THEN IF ~Truthy(singleReportData) THEN "nothing" ELSE "single"
    ELSE "full"

(***************************************************************************)
(* The cards of the full-mode section.                                     *)
(***************************************************************************)
categoryConfigs ==
    <<[label |-> Word("Equity Funds"), keys |-> <<"equity", "equity_funds">>],
      [label |-> Word("Debt Funds"), keys |-> <<"debt", "debt_funds">>],
      [label |-> Word("Hybrid Funds"), keys |-> <<"hybrid", "hybrid_funds">>],
      [label |-> Word("Gold ETFs"),
       keys |-> <<"gold", "gold_etf", "gold_etfs">>],
      [label |-> Word("Stocks"), keys |-> <<"stocks", "equity_stocks">>]>>

\* a faulty variant: an empty array stops the scan
RECURSIVE FirstArrayEvenEmpty(_, _)
FirstArrayEvenEmpty(results, keys) ==
    IF keys = << >> THEN Arr(<< >>)
    ELSE LET value == Get(results, Head(keys))
         IN  IF value.t = "array" THEN value
             ELSE FirstArrayEvenEmpty(results, Tail(keys))

\* the for loop of getCategoryItems
RECURSIVE FirstArray(_, _)
FirstArray(results, keys) ==
    IF keys = << >> THEN Arr(<< >>)
    ELSE LET value == Get(results, Head(keys))
         IN  IF value.t = "array" /\ Len(value.s) # 0 THEN value
             ELSE FirstArray(results, Tail(keys))

getCategoryItems(results, keys) ==
    IF ~Truthy(results) THEN Arr(<< >>) ELSE FirstArray(results, keys)

\* categoryConfigs.map(config => ({ ...config, items }))
recommendationSections(results) ==
    [i \in 1..Len(categoryConfigs) |->
        [label |-> categoryConfigs[i].label,
         keys |-> categoryConfigs[i].keys,
         items |-> getCategoryItems(results, categoryConfigs[i].keys)]]

UnnamedProduct == Word("Unnamed Product")

\* a faulty variant: the aliases are chained with ?? instead of ||
getItemNameNullish(item) ==
    Coalesce(Coalesce(Coalesce(Coalesce(Get(item, "name"),
                                        Get(item, "scheme_name")),
                               Get(item, "schemeName")),
                      Get(item, "fund_name")),
             UnnamedProduct)

getItemName(item) ==
    OrElse(OrElse(OrElse(OrElse(Get(item, "name"), Get(item, "scheme_name")),
                         Get(item, "schemeName")),
                  Get(item, "fund_name")),
           UnnamedProduct)

getItemScore(item) ==
    IF Get(item, "score") # Undef THEN Get(item, "score")
    ELSE IF Get(item, "combined_score") # Undef
    THEN Get(item, "combined_score")
    ELSE IF Get(item, "rating") # Undef THEN Get(item, "rating")
    ELSE Null

riskNarratives ==
    [Low |->
        Word("prioritize stability, capital protection, and steady income."),
     Medium |-> Word("balance long-term growth with reasonable stability."),
     High |->
        Word("maximize long-term growth even if short-term volatility increases.")]

DefaultNarrative == Word("deliver a balanced mix of growth and stability.")

\* table[key]: the key is converted to a string; undefined off the table
Lookup(table, key) ==
    LET name == StringOf(key)
    IN  IF Len(name) = 1 /\ name[1] \in DOMAIN table THEN table[name[1]]
        ELSE Undef

\* userDetails?.riskPreference ?? 'Medium'
riskPreference(details) == Coalesce(Get(details, "riskPreference"), Medium)

\* a faulty variant: the item's own explanation is not looked at
buildExplanationSynthesized(categoryLabel, custom, risk) ==
    Str(StringOf(categoryLabel) \o <<" are selected to ">>
        \o StringOf(Coalesce(Lookup(riskNarratives, risk), DefaultNarrative)))

\* buildExplanation, with the riskPreference it closes over
buildExplanation(categoryLabel, custom, risk) ==
    IF Truthy(custom) THEN custom
    ELSE LET narrative ==
                 Coalesce(Lookup(riskNarratives, risk), DefaultNarrative)
         IN  Str(StringOf(categoryLabel) \o <<" are selected to ">>
                 \o StringOf(narrative))

\* the props of a RecommendationCard
Card(name, category, score, explanation) ==
    [name |-> name, category |-> category, score |-> score,
     explanation |-> explanation]

\* what a render function returns: the elements it made
Rendered(elements) == [t |-> "rendered", s |-> elements]

CardLimit == 5

\* a faulty variant: every item of the bucket is kept
SliceAll(items, end) == items

\* items.slice(0, end)
Slice(items, end) ==
    SubSeq(items, 1, IF Len(items) < end THEN Len(items) ELSE end)

\* section.items.slice(0, 5).map(item => <RecommendationCard ... />)
SectionCards(label, items, risk) ==
    LET shown == Slice(items.s, CardLimit)
    IN  [i \in 1..Len(shown) |->
            Card(getItemName(shown[i]), label, getItemScore(shown[i]),
                 buildExplanation(label, Get(shown[i], "explanation"), risk))]

\* the sections of renderFullRecommendationSection that have items
renderFullRecommendationSection(results, details) ==
    LET HasItems(section) == Len(section.items.s) > 0
        sections == SelectSeq(recommendationSections(results), HasItems)
    IN  Rendered([i \in 1..Len(sections) |->
            [label |-> sections[i].label,
             cards |-> SectionCards(sections[i].label, sections[i].items,
                                    riskPreference(details))]])

(***************************************************************************)
(* The cards of the single-mode section.                                   *)
(***************************************************************************)
SINGLE_CATEGORY_LABELS ==
    [mutualfunds |-> Word("Mutual Funds"), stocks |-> Word("Stocks"),
     bonds |-> Word("Government Bonds"), gold |-> Word("Gold"),
     sip |-> Word("Systematic Investment Plan")]

\* parts.join(' (U+2022) '): the separator is a bullet between blanks
RECURSIVE Join(_)
Join(parts) ==
    IF parts = << >> THEN << >>
    ELSE IF Len(parts) = 1 THEN parts[1]
    ELSE parts[1] \o <<" (U+2022) ">> \o Join(Tail(parts))

buildSingleItemExplanation(item) ==
    LET extras == OrElse(Get(item, "extra_metrics"), EmptyObject)
        returns5y == Coalesce(Get(item, "5y_return"), Get(item, "return_5yr"))
        returns3y == Coalesce(Get(item, "3y_return"), Get(item, "return_3yr"))
        returns ==
            IF Truthy(returns5y)
            THEN <<<<"5Y CAGR ">> \o StringOf(returns5y) \o <<"%">>>>
            ELSE IF Truthy(returns3y)
            THEN <<<<"3Y CAGR ">> \o StringOf(returns3y) \o <<"%">>>>
            ELSE << >>
        metric(key, before, after) ==
            IF typeof(Get(extras, key)) = "number"
            THEN <<<<before>> \o StringOf(Get(extras, key)) \o after>>
            ELSE << >>
        parts ==
            returns \o metric("yield", "Yield ", <<"%">>)
                \o metric("expense_ratio", "Expense Ratio ", <<"%">>)
                \o metric("consistency", "Consistency ", <<"%">>)
                \o metric("volatility", "Volatility ", <<"%">>)
                \o metric("duration", "Duration ", <<" yrs">>)
                \o metric("beta", "Beta ", << >>)
    IN  IF Len(parts) # 0 THEN Str(Join(parts)) ELSE Undef

\* a render that throws a TypeError
Throws == [t |-> "TypeError"]

\* the cards renderSingleRecommendationSection makes of analytics.top_items
SingleModeCards(single) ==
    IF ~Truthy(single) THEN Rendered(<< >>)
    ELSE LET analytics == OrElse(Get(single, "analytics"), EmptyObject)
             label ==
                 OrElse(OrElse(Get(single, "label"),
                               Lookup(SINGLE_CATEGORY_LABELS,
                                      Get(single, "category"))),
                        Word("Selected Category"))
             topItems == OrElse(Get(analytics, "top_items"), Arr(<< >>))
         IN  IF topItems.t = "string" THEN Throws
             ELSE IF topItems.t # "array" THEN Rendered(<< >>)
             ELSE IF \E i \in 1..Len(topItems.s) : ~CanRead(topItems.s[i])
             THEN Throws
             ELSE Rendered([i \in 1..Len(topItems.s) |->
                     Card(Get(topItems.s[i], "name"), label,
                          Get(topItems.s[i], "score"),
                          buildSingleItemExplanation(topItems.s[i]))])

\* (list || []).map(...) and list && list.map(...): a truthy value that is
\* not an array has no map method
MapThrows(list) == Truthy(list) /\ list.t # "array"

\* {value} as a child of an element: React rejects a plain object, also
\* inside an array
RECURSIVE ChildThrows(_)
ChildThrows(value) ==
    \/ value.t = "object"
    \/ /\ value.t = "array"
       /\ \E i \in 1..Len(value.s) : ChildThrows(value.s[i])

\* the section of a single report: the heading, the four texts, the three
\* lists, the cards, the factors and the disclaimer (the metrics are
\* formatted by formatSingleMetricValue, which takes any value)
renderSingleRecommendationSection(single) ==
    IF ~Truthy(single) THEN Rendered(<< >>)
    ELSE LET insights == OrElse(Get(single, "insights"), EmptyObject)
             analytics == OrElse(Get(single, "analytics"), EmptyObject)
             lists ==
                 {Get(insights, "examples"), Get(insights, "pros"),
                  Get(insights, "cons"), Get(analytics, "factors_analyzed")}
             children ==
                 {Get(single, "label"), Get(insights, "overview"),
                  Get(insights, "risk_alignment"),
                  Get(insights, "expected_return_range"),
                  Get(insights, "suggested_allocation"),
                  OrElse(Get(insights, "disclaimer"),
                         Get(analytics, "disclaimer"))} \cup lists
         IN  IF \E list \in lists : MapThrows(list) THEN Throws
             ELSE IF \E child \in children : ChildThrows(child) THEN Throws
             ELSE SingleModeCards(single)

(***************************************************************************)
(* SpecCards: the functions that turn a response into cards, applied to    *)
(* the results, items, profiles and single reports a server may send.      *)
(***************************************************************************)
\* the items of a bucket, told apart by name; the score grows with i
FundItem(i) == Obj([name |-> Str(<<"Fund ", DigitChar(i)>>), score |-> Num(i)])

ItemX == FundItem(1)
ItemY == FundItem(2)

\* what a response may hold under a category alias
AliasValues == {Undef, Word("none"), Arr(<< >>), Arr(<<ItemX>>), Arr(<<ItemY>>)}

AliasesOf(i) ==
    {categoryConfigs[i].keys[j] : j \in 1..Len(categoryConfigs[i].keys)}

CategoryResults(i) ==
    {Null, Num(0)} \cup {Jsonify(Obj(f)) : f \in [AliasesOf(i) -> AliasValues]}

NamedItems ==
    {Undef, Null} \cup
    {Jsonify(Obj([name |-> n, scheme_name |-> s, schemeName |-> c,
                  fund_name |-> f])) :
        n \in {Undef, Null, EMPTY, Word("Nippon India Gold ETF")},
        s \in {Undef, EMPTY, Word("SBI Gold Fund")},
        c \in {Undef, Word("HDFC Gold Fund")},
        f \in {Undef, Word("Axis Gold Fund")}}

ScoredItems ==
    {Undef, Null} \cup
    {Jsonify(Obj([score |-> s, combined_score |-> c, rating |-> r])) :
        s \in {Undef, Null, Num(0), Num(7), Word("A")},
        c \in {Undef, Null, Num(3)},
        r \in {Undef, Num(4)}}

RiskProfiles ==
    {Jsonify(Obj([riskPreference |-> r])) :
        r \in {Undef, Word("Low"), Medium, Word("High"), Word("Aggressive")}}

ItemExplanations ==
    {Undef, Null, EMPTY, Word("Lowest expense ratio in its class.")}

\* buckets of 0..MaxItems items in rising and in falling order of score,
\* and a bucket of items that have neither a name nor an explanation
Buckets ==
    {[i \in 1..n |-> FundItem(i)] : n \in 0..MaxItems}
        \cup {[i \in 1..n |-> FundItem(n + 1 - i)] : n \in 2..MaxItems}
        \cup {<<EmptyObject, Null>>}

FullResults ==
    {Jsonify(Obj([gold_etf |-> Arr(b), equity |-> e])) :
        b \in Buckets,
        e \in {Undef, Arr(<<Obj([schemeName |-> Word("HDFC Flexi Cap"),
                                 explanation |-> Word("Top quartile over five years.")])>>)}}

TopItems ==
    {Null} \cup
    {Jsonify(Obj(("name" :> n) @@ ("score" :> Num(8)) @@ ("5y_return" :> r5)
                 @@ ("3y_return" :> r3) @@ ("extra_metrics" :> e))) :
        n \in {Undef, Word("Axis Gold ETF")},
        r5 \in {Undef, Num(0), Num(12)},
        r3 \in {Undef, Num(9)},
        e \in {Undef, Obj([yield |-> Num(7)]),
               Obj([yield |-> Word("high"), beta |-> Num(1)])}}

\* a list of the report: absent, null, an array, or of another type
ListValues ==
    {Undef, Null, Arr(<< >>), Arr(<<Word("Sovereign Gold Bonds")>>),
     Word("Sovereign Gold Bonds"), EmptyObject}

InsightValues ==
    {Null, Word("none")} \cup
    {Obj([overview |-> o, examples |-> e, pros |-> p]) :
        o \in {Undef, Word("Gold hedges inflation.")},
        e \in ListValues, p \in {Undef, Arr(<<Word("Liquid")>>)}}

AnalyticsValues ==
    {Null, Word("none")} \cup
    {Obj([metrics |-> m, factors_analyzed |-> f, top_items |-> t]) :
        m \in {Undef, Null, Num(5), Obj([avg_return |-> Num(11)])},
        f \in ListValues,
        t \in {Undef, Null, Word("none"), Arr(<<ItemX>>)}}

SingleReports ==
    {Null} \cup
    {Jsonify(Obj([category |-> c, analytics |-> a])) :
        c \in {Undef, Word("gold")},
        a \in {Undef, EmptyObject, Obj([top_items |-> Arr(<< >>)])}
                \cup {Obj([top_items |-> Arr(<<x>>)]) : x \in TopItems}}
      \cup {Jsonify(Obj([category |-> Word("gold"), insights |-> i])) :
                i \in InsightValues}
      \cup {Jsonify(Obj([category |-> Word("gold"), analytics |-> a])) :
                a \in AnalyticsValues}

\* top items with a return under either of its names, and with every
\* extra metric
ReturnItems ==
    (TopItems \ {Null}) \cup
    {Jsonify(Obj([return_5yr |-> r5, return_3yr |-> r3, extra_metrics |-> e])) :
        r5 \in {Undef, Num(11)}, r3 \in {Undef, Num(6)},
        e \in {Null,
               Obj([beta |-> Num(1), duration |-> Num(4),
                    volatility |-> Num(15), consistency |-> Num(80),
                    expense_ratio |-> Num(2), yield |-> Num(7)])}}

CardCalls ==
    UNION {{[fn |-> "getCategoryItems", results |-> r, config |-> i] :
                r \in CategoryResults(i)} : i \in 1..Len(categoryConfigs)}
      \cup {[fn |-> "getItemName", item |-> x] : x \in NamedItems}
      \cup {[fn |-> "getItemScore", item |-> x] : x \in ScoredItems}
      \cup {[fn |-> "buildExplanation",
             label |-> categoryConfigs[i].label, custom |-> c,
             details |-> d] :
                i \in 1..Len(categoryConfigs), c \in ItemExplanations,
                d \in RiskProfiles}
      \cup {[fn |-> "renderFullRecommendationSection", results |-> r,
             details |-> d] : r \in FullResults, d \in RiskProfiles}
      \cup {[fn |-> "renderSingleRecommendationSection", single |-> r] :
                r \in SingleReports}
      \cup {[fn |-> "buildSingleItemExplanation", item |-> x] :
                x \in ReturnItems}

InitCards ==
    /\ storage = [mandatoryDetails |-> NoItem, optionalDetails |-> NoItem,
                  reportPreference |-> NoItem]
    /\ page = "elsewhere"
    /\ OptionalUnmounted
    /\ RecommendationUnmounted
    /\ last = NoHandler
    /\ call \in CardCalls
    /\ result = Pending

\* the call returns: nothing but the result changes
Returns(fn, value) ==
    /\ call.fn = fn
    /\ result = Pending
    /\ result' = value
    /\ UNCHANGED <<storage, page, optVars, recVars, last, call>>

ApplyGetCategoryItems ==
    Returns("getCategoryItems",
            getCategoryItems(call.results, categoryConfigs[call.config].keys))

ApplyGetItemName == Returns("getItemName", getItemName(call.item))

ApplyGetItemScore == Returns("getItemScore", getItemScore(call.item))

ApplyBuildExplanation ==
    Returns("buildExplanation",
            buildExplanation(call.label, call.custom,
                             riskPreference(call.details)))

ApplyRenderFull ==
    Returns("renderFullRecommendationSection",
            renderFullRecommendationSection(call.results, call.details))

ApplyRenderSingle ==
    Returns("renderSingleRecommendationSection",
            renderSingleRecommendationSection(call.single))

ApplyBuildSingleItemExplanation ==
    Returns("buildSingleItemExplanation",
            buildSingleItemExplanation(call.item))

NextCards ==
    \/ ApplyGetCategoryItems
    \/ ApplyGetItemName
    \/ ApplyGetItemScore
    \/ ApplyBuildExplanation
    \/ ApplyRenderFull
    \/ ApplyRenderSingle
    \/ ApplyBuildSingleItemExplanation

SpecCards == InitCards /\ [][NextCards]_vars

(***************************************************************************)
(* Navbar and the other routes.                                            *)
(***************************************************************************)
handleLogout ==
    /\ storage' = [storage EXCEPT !.mandatoryDetails = NoItem,
                                  !.optionalDetails = NoItem]
    /\ page' = "elsewhere"
    /\ UnmountOptional
    /\ UnmountRecommendation
    /\ last' = [op |-> "handleLogout"]
    /\ UNCHANGED pureVars

\* a link to a route that is neither /optional nor /recommendation
Leave ==
    /\ page \in {"optional", "recommendation"}
    /\ page' = "elsewhere"
    /\ UnmountOptional
    /\ UnmountRecommendation
    /\ last' = [op |-> "Leave"]
    /\ UNCHANGED <<storage, pureVars>>

Next ==
    \/ OptionalMount
    \/ \E name \in FormFields : \E value \in InputValues(name) :
          handleInputChange(name, value)
    \/ \E value \in {FULL, SINGLE} :
          handleReportPreferenceChange("reportType", value)
    \/ \E value \in CategoryChoices :
          handleReportPreferenceChange("investmentType", value)
    \/ handleSubmit
    \/ handleSkip
    \/ RecommendationOpen
    \/ RecommendationMount
    \/ fetchRecommendations
    \/ \E r \in inflight : \E data \in ServerData : ResponseOk(r, data)
    \/ \E r \in inflight : \E message \in NetworkErrors :
          FetchRejected(r, message)
    \/ \E r \in inflight : ResponseNotOk(r)
    \/ \E r \in inflight : ResponseUnparseable(r)
    \/ handleLogout
    \/ Leave

Spec == Init /\ [][Next]_vars

(***************************************************************************)
(* C1.  Right after a call of fetchRecommendations ended in failure, the   *)
(* error is set, the results are null, the mode is 'full', the single      *)
(* report is null and the loading flag is false, whatever the state was.   *)
(***************************************************************************)
C1_FailureResetsState ==
    last.op = "failure" =>
        /\ recommendationError # Null
        /\ recommendationResults = Null
        /\ reportMode = FULL
        /\ singleReportData = Null
        /\ recommendationLoading = FALSE

\* a failure that follows a successful single-mode response
C1_FailureAfterSingle ==
    last.op = "failure" /\ last.modeBefore = SINGLE

(***************************************************************************)
(* C2.  Right after a successful response, reportMode is 'single' exactly  *)
(* when the response's report_type is 'single' and 'full' otherwise, and   *)
(* the page's reportPreference and the stored reportPreference are what    *)
(* they were before the response.                                          *)
(***************************************************************************)
C2_ServerPrecedence ==
    last.op = "success" =>
        /\ reportMode \in {FULL, SINGLE}
        /\ reportMode = SINGLE <=> Get(last.data, "report_type") = SINGLE
        /\ reportPreference = last.preference
        /\ storage.reportPreference = last.storage.reportPreference

\* the server answers 'single' to a request made with a 'full' preference
C2_ServerOverridesFull ==
    /\ last.op = "success"
    /\ Get(last.data, "report_type") = SINGLE
    /\ Get(reportPreference, "reportType") = FULL

(***************************************************************************)
(* C3.  In every state, a non-null recommendationError implies that the    *)
(* results are null, the mode is 'full' and the single report is null.     *)
(***************************************************************************)
C3_ErrorIsEmptyFullState ==
    recommendationError # Null =>
        /\ recommendationResults = Null
        /\ reportMode = FULL
        /\ singleReportData = Null

(***************************************************************************)
(* C4.  A request made with a 'full' preference has no investment_type     *)
(* key, whatever investmentType the preference holds; a request made with  *)
(* a 'single' preference and a category carries that category as           *)
(* investment_type and report_type 'single'.                               *)
(***************************************************************************)
C4_InvestmentTypeOnlyInSingle ==
    \A r \in inflight :
        /\ Get(reportPreference, "reportType") = FULL
              => ~HasKey(r.body, "investment_type")
        /\ (/\ Get(reportPreference, "reportType") = SINGLE
            /\ Truthy(Get(reportPreference, "investmentType")))
              => /\ Get(r.body, "investment_type") =
                       Get(reportPreference, "investmentType")
                 /\ Get(r.body, "report_type") = SINGLE

\* the form field each optional request key is entered in
OptionalFieldSource ==
    [monthly_income |-> "monthlyIncome", savings |-> "savings",
     time_horizon |-> "timeHorizon",
     experience_level |-> "investmentExperience",
     financial_goals |-> "financialGoals",
     monthly_expenses |-> "monthlyExpenses"]

(***************************************************************************)
(* C7.  A request omits the key of every optional field that the profile   *)
(* holds as an empty string or does not hold.                              *)
(***************************************************************************)
C7_BlankOptionalFieldsOmitted ==
    \A r \in inflight : \A key \in DOMAIN OptionalFieldSource :
        Get(userDetails, OptionalFieldSource[key]) \in {Undef, EMPTY}
            => ~HasKey(r.body, key)

\* the invalid preference: single mode with no category
SingleWithoutCategory(preference) ==
    /\ Get(preference, "reportType") = SINGLE
    /\ Get(preference, "investmentType") \in {Undef, Null, EMPTY}

(***************************************************************************)
(* C8.  The optional-details screen never stores the preference            *)
(* {single, ''}: Submit or Skip pressed while the preference is single     *)
(* with no category stores nothing, stays on the screen and sets the field *)
(* error.                                                                  *)
(***************************************************************************)
C8_SingleWithoutCategoryNotStored ==
    last.op \in {"handleSubmit", "handleSkip"} =>
        /\ storage.reportPreference # last.storage.reportPreference
              => ~SingleWithoutCategory(JSONparse(storage.reportPreference))
        /\ SingleWithoutCategory(last.preference)
              => /\ storage = last.storage
                 /\ page = "optional"
                 /\ reportError # EMPTY

\* Skip pressed while the preference is single with no category
C8_SkipWithoutCategory ==
    last.op = "handleSkip" /\ SingleWithoutCategory(last.preference)

(***************************************************************************)
(* C9.  validateReportPreference returns false and sets the error message  *)
(* exactly when reportType is 'single' and investmentType is empty;        *)
(* otherwise it returns true and the error message is empty.               *)
(***************************************************************************)
C9_ValidateReportPreference ==
    last.op \in {"handleSubmit", "handleSkip"} =>
        /\ last.ok <=> ~(/\ Get(last.preference, "reportType") = SINGLE
                         /\ Get(last.preference, "investmentType") = EMPTY)
        /\ ~last.ok => reportError = CategoryError
        /\ last.ok => reportError = EMPTY

\* a 'full' preference that still holds a category passes validation
C9_FullWithCategoryAccepted ==
    /\ last.op \in {"handleSubmit", "handleSkip"}
    /\ last.ok
    /\ Get(last.preference, "reportType") = FULL
    /\ Get(last.preference, "investmentType") # EMPTY

\* no item, or text that is not the JSON of an object
Malformed(item) ==
    \/ item \in {NoItem, EmptyText, Garbage}
    \/ item.k = "json" /\ item.v.t # "object"

(***************************************************************************)
(* C10.  When the stored reportPreference is absent or is not the JSON of  *)
(* an object, both pages load the default {full, ''}, show no error, and   *)
(* the recommendation page sets preferenceLoaded.                          *)
(***************************************************************************)
C10_MalformedPreferenceLoadsDefault ==
    Malformed(storage.reportPreference) =>
        /\ (last.op = "OptionalMount")
              => /\ page = "optional"
                 /\ optReportPreference = DefaultPreference
                 /\ reportError = EMPTY
        /\ (/\ last.op = "RecommendationMount"
            /\ ItemTruthy(storage.mandatoryDetails)
            /\ ~ParseThrows(storage.mandatoryDetails))
              => /\ page = "recommendation"
                 /\ reportPreference = DefaultPreference
                 /\ preferenceLoaded
                 /\ recommendationError = Null

\* the recommendation page has loaded a stored JSON null
C10_NullPreferenceLoaded ==
    /\ last.op = "RecommendationMount"
    /\ last.outcome = "loaded"
    /\ storage.reportPreference = JSONstringify(Null)

\* a number that is neither NaN nor infinite
IsFinite(v) == v.t = "number"

(***************************************************************************)
(* C6.  parseOptionalNumber returns undefined for '', null, undefined and  *)
(* for every value that does not convert to a finite number, and the       *)
(* converted number for every other input ('0' gives 0).                   *)
(***************************************************************************)
C6_ParseOptionalNumberFinite ==
    (call.fn = "parseOptionalNumber" /\ result # Pending) =>
        IF \/ call.value \in {Undef, Null, EMPTY}
           \/ ~IsFinite(ToNumber(call.value))
        THEN result = Undef
        ELSE result = ToNumber(call.value)

\* the profile's age, under either of its names
ProfileAge(details) ==
    Coalesce(Get(details, "age"), Get(details, "userAge"))

\* a number, or a string with digits that denotes a finite number
IsNumeric(v) ==
    \/ v.t = "number"
    \/ /\ v.t = "string"
       /\ TrimEnd(TrimStart(v.s)) # << >>
       /\ IsFinite(StringToNumber(v.s))

(***************************************************************************)
(* C5.  The request's age is 30 when the profile's age is absent or not    *)
(* numeric and is the number the profile's age denotes otherwise;          *)
(* investment_amount is 0 and risk_preference is 'Medium' when the profile *)
(* has none.                                                               *)
(***************************************************************************)
C5_RequestDefaults ==
    (call.fn = "Payload" /\ result # Pending) =>
        LET d == call.details
            has(k) == Coalesce(Get(d, k), Undef) # Undef
        IN  /\ Get(result, "age") =
                  IF IsNumeric(ProfileAge(d)) THEN ToNumber(ProfileAge(d))
                  ELSE Num(30)
            /\ (~has("investmentAmount") /\ ~has("investment_amount"))
                  => Get(result, "investment_amount") = Num(0)
            /\ (~has("riskPreference") /\ ~has("risk_preference"))
                  => Get(result, "risk_preference") = Medium

\* the fields the profile form requires
MandatoryFields == {"age", "investmentAmount", "riskPreference"}

HasMandatoryFields(details) ==
    \A key \in MandatoryFields : Get(details, key) \notin {Undef, Null}

(***************************************************************************)
(* C11.  Every request in flight was issued for a profile that holds age,  *)
(* investmentAmount and riskPreference; and when the stored                *)
(* mandatoryDetails is absent or is an object that lacks one of them, the  *)
(* mount effects navigate away and no request is issued.                   *)
(***************************************************************************)
C11_RequestNeedsMandatoryFields ==
    /\ \A r \in inflight : HasMandatoryFields(userDetails)
    /\ (/\ last.op = "RecommendationMount"
        /\ \/ storage.mandatoryDetails = NoItem
           \/ /\ storage.mandatoryDetails.k = "json"
              /\ ~HasMandatoryFields(JSONparse(storage.mandatoryDetails)))
          => /\ last.outcome = "redirected"
             /\ page = "elsewhere"
             /\ inflight = {}

(***************************************************************************)
(* C12.  Right after a call of fetchRecommendations started, the loading   *)
(* flag is true; right after a response resolved, by success or by any     *)
(* failure, it is false; and whenever no issued request is unresolved it   *)
(* is false.                                                               *)
(***************************************************************************)
C12_LoadingClearsOnResolution ==
    /\ last.op = "fetchRecommendations" => recommendationLoading
    /\ last.op \in {"success", "failure"} => ~recommendationLoading
    /\ inflight = {} => ~recommendationLoading

\* two overlapping requests have resolved, one failed and then one succeeded
C12_AllResolvedAfterOverlap ==
    /\ last.op = "success"
    /\ recommendationError # Null
    /\ issued >= 2
    /\ inflight = {}

(***************************************************************************)
(* C13.  Right after a successful response whose report_type is 'single',  *)
(* the mode is 'single', there is a single report to render, and the page  *)
(* shows the single-mode section.                                          *)
(***************************************************************************)
C13_ServerSingleRendersSingle ==
    (last.op = "success" /\ Get(last.data, "report_type") = SINGLE) =>
        /\ reportMode = SINGLE
        /\ singleReportData # Null
        /\ ReportSection = "single"

\* a function of SpecCards has been called and has returned
Returned(fn) == call.fn = fn /\ result # Pending

\* a value that is an array with at least one element
NonEmptyArray(v) == v.t = "array" /\ v.s # << >>

(***************************************************************************)
(* C14.  getCategoryItems returns the value of the first alias, in the     *)
(* configured order of the category, whose value is a non-empty array, and *)
(* the empty list when no alias has one or the results are null.           *)
(***************************************************************************)
C14_FirstNonEmptyAlias ==
    Returned("getCategoryItems") =>
        LET keys == categoryConfigs[call.config].keys
            qualifying ==
                {i \in 1..Len(keys) :
                    NonEmptyArray(Get(call.results, keys[i]))}
            first == CHOOSE i \in qualifying : \A j \in qualifying : i <= j
        IN  IF call.results = Null \/ qualifying = {}
            THEN result = Arr(<< >>)
            ELSE result = Get(call.results, keys[first])

\* the first alias holds an empty array and a later alias is returned
C14_EmptyAliasSkipped ==
    /\ Returned("getCategoryItems")
    /\ Get(call.results, categoryConfigs[call.config].keys[1]) = Arr(<< >>)
    /\ NonEmptyArray(result)

(***************************************************************************)
(* C15.  For a response that holds gold_etf: [x] and gold: [y], the items  *)
(* of the Gold ETFs category are [x].                                      *)
(***************************************************************************)
C15_GoldEtfBeforeGold ==
    (/\ Returned("getCategoryItems")
     /\ categoryConfigs[call.config].label = Word("Gold ETFs")
     /\ Get(call.results, "gold_etf") = Arr(<<ItemX>>)
     /\ Get(call.results, "gold") = Arr(<<ItemY>>))
        => result = Arr(<<ItemX>>)

\* a value the backend knows: neither absent nor null
Known(v) == v \notin {Undef, Null}

(***************************************************************************)
(* C16.  getItemScore returns the first of score, combined_score, rating   *)
(* that the item holds with a known value, and null when it holds none; a  *)
(* score of 0 is returned as 0.                                            *)
(***************************************************************************)
C16_FirstKnownScore ==
    Returned("getItemScore") =>
        LET score == Get(call.item, "score")
            combined == Get(call.item, "combined_score")
            rating == Get(call.item, "rating")
        IN  /\ result = IF Known(score) THEN score
                        ELSE IF Known(combined) THEN combined
                        ELSE IF Known(rating) THEN rating
                        ELSE Null
            /\ score = Num(0) => result = Num(0)

\* a name that is set: neither absent, nor null, nor the empty string
IsSet(v) == v \notin {Undef, Null, EMPTY}

(***************************************************************************)
(* C17.  getItemName returns the first of name, scheme_name, schemeName,   *)
(* fund_name that is set, and 'Unnamed Product' when none is set or the    *)
(* item is null or undefined; it never returns null, undefined or ''.      *)
(***************************************************************************)
C17_FirstSetName ==
    Returned("getItemName") =>
        LET aliases == <<"name", "scheme_name", "schemeName", "fund_name">>
            set == {i \in 1..4 : IsSet(Get(call.item, aliases[i]))}
            first == CHOOSE i \in set : \A j \in set : i <= j
        IN  /\ result = IF set = {} THEN Word("Unnamed Product")
                        ELSE Get(call.item, aliases[first])
            /\ IsSet(result)

\* the name is the empty string and a later alias is returned
C17_EmptyNameSkipped ==
    /\ Returned("getItemName")
    /\ Get(call.item, "name") = EMPTY
    /\ result = Get(call.item, "fund_name")

(***************************************************************************)
(* C18.  For every category whose bucket has n items, n > 0, the full-mode *)
(* section shows min(5, n) cards, and the i-th card is made of the i-th    *)
(* item of the bucket as the backend sent it.                              *)
(***************************************************************************)
C18_FirstFiveInBackendOrder ==
    Returned("renderFullRecommendationSection") =>
        \A c \in 1..Len(categoryConfigs) :
            LET bucket == getCategoryItems(call.results, categoryConfigs[c].keys).s
                n == Len(bucket)
                shown == {i \in 1..Len(result.s) :
                            result.s[i].label = categoryConfigs[c].label}
            IN  n > 0 =>
                  /\ Cardinality(shown) = 1
                  /\ \A i \in shown :
                        LET cards == result.s[i].cards
                        IN  /\ Len(cards) = IF n < 5 THEN n ELSE 5
                            /\ \A k \in 1..Len(cards) :
                                  /\ cards[k].name = getItemName(bucket[k])
                                  /\ cards[k].score = getItemScore(bucket[k])

\* a bucket of more than five items, sent in rising order of score
C18_LongUnsortedBucket ==
    /\ Returned("renderFullRecommendationSection")
    /\ Len(Get(call.results, "gold_etf").s) > 5
    /\ \E i \in 1..Len(result.s) :
          /\ Len(result.s[i].cards) = 5
          /\ result.s[i].cards[1].score.n < result.s[i].cards[2].score.n

CardsOf(rendered) ==
    IF rendered.t # "rendered" THEN {}
    ELSE IF call.fn = "renderFullRecommendationSection"
    THEN UNION {{rendered.s[i].cards[k] : k \in 1..Len(rendered.s[i].cards)} :
                    i \in 1..Len(rendered.s)}
    ELSE {rendered.s[i] : i \in 1..Len(rendered.s)}

(***************************************************************************)
(* C20.  Every card of the full-mode section and every card of the         *)
(* single-mode section has a name that is neither null nor undefined and   *)
(* an explanation that is a string.                                        *)
(***************************************************************************)
C20_CardsHaveNameAndExplanation ==
    (\/ Returned("renderFullRecommendationSection")
     \/ Returned("renderSingleRecommendationSection")) =>
        \A card \in CardsOf(result) :
            /\ card.name \notin {Undef, Null}
            /\ card.explanation.t = "string"

(***************************************************************************)
(* C21.  For every single report, with each of its fields absent, null or  *)
(* of an unexpected type, rendering the single-mode section does not       *)
(* throw.                                                                  *)
(***************************************************************************)
C21_SingleSectionNeverThrows ==
    Returned("renderSingleRecommendationSection") => result # Throws

(***************************************************************************)
(* C24.  buildSingleItemExplanation returns the fragments joined by the    *)
(* bullet: '5Y CAGR' when the item has a 5-year return under either name   *)
(* (0 included), else '3Y CAGR' when it has a 3-year return; then yield,   *)
(* expense ratio, consistency, volatility, duration, beta, each when its   *)
(* extra metric is a number; and undefined when there is no fragment.      *)
(***************************************************************************)
C24_SingleItemFragments ==
    Returned("buildSingleItemExplanation") =>
        LET item == call.item
            extras == Get(item, "extra_metrics")
            fiveYear == Coalesce(Get(item, "5y_return"), Get(item, "return_5yr"))
            threeYear == Coalesce(Get(item, "3y_return"), Get(item, "return_3yr"))
            fragment(present, before, value, after) ==
                IF present THEN <<<<before>> \o StringOf(value) \o after>>
                ELSE << >>
            metric(key, before, after) ==
                fragment(typeof(Get(extras, key)) = "number", before,
                         Get(extras, key), after)
            expected ==
                fragment(Known(fiveYear), "5Y CAGR ", fiveYear, <<"%">>)
                  \o fragment(~Known(fiveYear) /\ Known(threeYear),
                              "3Y CAGR ", threeYear, <<"%">>)
                  \o metric("yield", "Yield ", <<"%">>)
                  \o metric("expense_ratio", "Expense Ratio ", <<"%">>)
                  \o metric("consistency", "Consistency ", <<"%">>)
                  \o metric("volatility", "Volatility ", <<"%">>)
                  \o metric("duration", "Duration ", <<" yrs">>)
                  \o metric("beta", "Beta ", << >>)
        IN  IF expected = << >> THEN result = Undef
            ELSE result = Str(Join(expected))

(***************************************************************************)
(* C22.  Right after a call of fetchRecommendations started, from any      *)
(* state, the loading flag is true, the error is null, and the results,    *)
(* the mode and the single report are what they were before the call; and  *)
(* a page that has fetched and is not loading is in the state a success    *)
(* left, with mode 'full' or 'single', or in the error state.              *)
(***************************************************************************)
C22_RefetchReentersLoading ==
    /\ last.op = "fetchRecommendations" =>
          /\ recommendationLoading
          /\ recommendationError = Null
          /\ StateShown = last.before
    /\ (page = "recommendation" /\ issued > 0 /\ ~recommendationLoading) =>
          \/ last.op = "success" /\ reportMode \in {FULL, SINGLE}
          \/ /\ last.op = "failure"
             /\ recommendationError # Null
             /\ StateShown = [results |-> Null, mode |-> FULL, single |-> Null]

\* a call started while the page shows a single-mode report
C22_RefetchFromSingle ==
    /\ last.op = "fetchRecommendations"
    /\ last.before.mode = SINGLE
    /\ last.before.single # Null
    /\ recommendationLoading

(***************************************************************************)
(* C23.  Right after a successful response, the results, the mode and the  *)
(* single report are those of that response, whichever call it answers:    *)
(* the response that resolves last wins, also when it answers a call       *)
(* issued before the call whose response it overwrites.                    *)
(***************************************************************************)
C23_LastResolvedWins ==
    last.op = "success" =>
        /\ recommendationResults =
              Coalesce(Get(last.data, "recommendations"), last.data)
        /\ reportMode =
              IF Get(last.data, "report_type") = SINGLE THEN SINGLE ELSE FULL
        /\ singleReportData = Coalesce(Get(last.data, "single_report"), Null)

\* the first call's response resolves after a later call's has succeeded
C23_EarlierRequestResolvesLast ==
    /\ last.op = "success"
    /\ last.id = 1
    /\ issued >= 2
    /\ inflight = {}
    /\ recommendationError = Null

(***************************************************************************)
(* C25.  In every state, the loading flag is true while a request is in    *)
(* flight.                                                                 *)
(***************************************************************************)
C25_LoadingWhileInFlight ==
    inflight # {} => recommendationLoading

\* the validity rule of a report preference
ValidPreference(preference) ==
    /\ Get(preference, "reportType") \in {FULL, SINGLE}
    /\ Get(preference, "reportType") = SINGLE =>
          \E i \in 1..Len(SINGLE_REPORT_OPTIONS) :
              Get(preference, "investmentType") = SINGLE_REPORT_OPTIONS[i]

(***************************************************************************)
(* C26.  The preference either page has right after loading the stored     *)
(* reportPreference is valid: reportType is 'full' or 'single', and        *)
(* 'single' comes with one of the five categories.                         *)
(***************************************************************************)
C26_LoadedPreferenceValid ==
    /\ last.op = "OptionalMount" => ValidPreference(optReportPreference)
    /\ (last.op = "RecommendationMount" /\ last.outcome = "loaded")
          => ValidPreference(reportPreference)

(***************************************************************************)
(* C27.  Every request carries, for each optional field of the stored      *)
(* optionalDetails that the user filled in, the request key of that field  *)
(* with the submitted value (as a number for the three amounts).           *)
(***************************************************************************)
C27_SubmittedValuesSent ==
    \A r \in inflight : \A key \in DOMAIN OptionalFieldSource :
        storage.optionalDetails.k = "json" =>
            LET submitted == Get(JSONparse(storage.optionalDetails),
                                 OptionalFieldSource[key])
            IN  Truthy(submitted) =>
                    Get(r.body, key) =
                        IF key \in {"monthly_income", "savings",
                                    "monthly_expenses"}
                        THEN ToNumber(submitted) ELSE submitted

(***************************************************************************)
(* C28.  Once the recommendation page has loaded the profile and every     *)
(* request it issued has resolved, it shows the report and not the         *)
(* 'Loading...' placeholder, whatever the profile's risk preference is.    *)
(***************************************************************************)
C28_PlaceholderLeftOnceFetched ==
    (/\ page = "recommendation"
     /\ userDetails # Null
     /\ issued > 0
     /\ inflight = {})
        => ReportSection # "loading"

\* a stored preference that is the JSON of a valid preference
StoredValidPreference ==
    /\ storage.reportPreference.k = "json"
    /\ storage.reportPreference.v.t = "object"
    /\ ValidPreference(storage.reportPreference.v)

(***************************************************************************)
(* C29.  Every request was issued with the profile and the preference      *)
(* loaded, and when the stored reportPreference is valid the request       *)
(* carries its reportType as report_type and its category, if it has one,  *)
(* as investment_type.                                                     *)
(***************************************************************************)
C29_RequestAfterBothLoaded ==
    \A r \in inflight :
        /\ userDetails # Null
        /\ preferenceLoaded
        /\ StoredValidPreference =>
              LET stored == JSONparse(storage.reportPreference)
              IN  /\ Get(r.body, "report_type") = Get(stored, "reportType")
                  /\ Get(r.body, "investment_type") =
                        OrElse(Get(stored, "investmentType"), Undef)

\* a request in flight for a stored single-mode preference
C29_SingleRequestInFlight ==
    /\ StoredValidPreference
    /\ Get(JSONparse(storage.reportPreference), "reportType") = SINGLE
    /\ \E r \in inflight : Get(r.body, "report_type") = SINGLE

(***************************************************************************)
(* C30.  Right after Skip & Continue was accepted, the optionalDetails     *)
(* item is what it was, and the profile the recommendation page assembles  *)
(* holds no optional value: none that an earlier Submit stored.            *)
(***************************************************************************)
C30_SkipMergesNoStoredOptionals ==
    (last.op = "handleSkip" /\ last.ok) =>
        /\ storage.optionalDetails = last.storage.optionalDetails
        /\ storage.reportPreference # last.storage.reportPreference
              => storage.reportPreference =
                    persistReportPreference(last.preference)
        /\ ~ParseThrows(storage.mandatoryDetails) =>
              \A field \in FormFields :
                  ~Truthy(Get(AssembledProfile(storage.mandatoryDetails,
                                               storage.optionalDetails),
                              field))

====
